---- MODULE Spec2Model ----
(***************************************************************************)
(* WeChat-MCP-Server: the automation controller (wechat_controller.py),    *)
(* the JSON-RPC server around it (mcp_server.py) and the manual test       *)
(* program (test_send_chinese.py), as one state machine.                   *)
(*                                                                         *)
(* One asyncio event loop runs the tasks: task 0 is the program's main()   *)
(* coroutine, tasks 1..MaxTasks are the delayed_send coroutines created by *)
(* schedule_message.  A task keeps the loop until it reaches an await that *)
(* really suspends (run_in_executor, asyncio.sleep).  send_text_message is *)
(* modelled one OS call per step; every OS call may raise.                 *)
(***************************************************************************)
EXTENDS Integers, Sequences, FiniteSets, TLC

\* ------------------------------------------------------------------ bounds
MaxTasks == 2       \* delayed_send tasks that may be created in one behaviour
MaxHwnd == 2        \* window handles the OS hands out are 1..MaxHwnd
MaxWindows == 2     \* windows in one EnumWindows enumeration
MaxProcs == 2       \* processes in one psutil.process_iter enumeration
MaxDelay == 1       \* largest delay_seconds of a schedule request, in ticks

\* ------------------------------------------------------------- identifiers
MainTask == 0
SchedIds == 1..MaxTasks
Tasks == 0..MaxTasks

NoData == "None"            \* Python None where a text was expected
ClipEmpty == "<no text>"    \* clipboard holds no CF_TEXT-readable content

\* ------------------------------------------------------- the OS: clipboard
\* What the user may have on the clipboard when a run starts.
UserClips == {ClipEmpty, "user_ansi", "user_wide"}

\* win32clipboard.GetClipboardData() with its default format CF_TEXT: text
\* outside the ANSI code page comes back with the unmappable characters lost.
GetClipboardData(c) ==
    IF c = "user_wide" THEN "user_wide_lossy" ELSE c

\* ---------------------------------------------------------- version detect
\* FileVersionMS values of the executables in the model: 3.9 and 4.0.
FileVersionMSs == {3 * 65536 + 9, 4 * 65536}
Procs == [wechat : BOOLEAN, exe : BOOLEAN, readable : BOOLEAN, ms : FileVersionMSs]
ProcLists == UNION {[1..n -> Procs] : n \in 0..MaxProcs}

NoVersion == <<>>
\* f"{MS >> 16}.{MS & 0xFFFF}.{LS >> 16}.{LS & 0xFFFF}" (FileVersionLS is 0 here)
VersionString(ms) == <<ms \div 65536, ms % 65536, 0, 0>>
\* int(version.split('.')[0])
MajorOf(version) == version[1]

\* the first process whose name holds 'wechat', whose exe is known and whose
\* version resource can be read; 0 when there is none
RECURSIVE FirstVersioned(_, _)
FirstVersioned(procs, i) ==
    IF i > Len(procs) THEN 0
    ELSE IF procs[i].wechat /\ procs[i].exe /\ procs[i].readable THEN i
    ELSE FirstVersioned(procs, i + 1)

\* _detect_wechat_version: the value returned (NoVersion for None)
DetectedVersion(procs) ==
    LET i == FirstVersioned(procs, 1) IN
    IF i = 0 THEN NoVersion ELSE VersionString(procs[i].ms)

\* _detect_wechat_version: the controller fields after the call.  A failed
\* detection assigns neither field.
DetectWeChatVersion(c, procs) ==
    LET v == DetectedVersion(procs) IN
    IF v = NoVersion THEN c
    ELSE [wechat_version |-> v, is_nt_version |-> (MajorOf(v) >= 4)]

\* WeChatController.__init__
NewController == [wechat_version |-> NoVersion, is_nt_version |-> FALSE]

\* ----------------------------------------------------------- window lookup
ClassNames == {"WeChatMainWndForPC", "Qt5QWindowIcon", "Notepad"}
Titles == {"WeChat", "Untitled"}
Windows == [hwnd : 1..MaxHwnd, cls : ClassNames, title : Titles, visible : BOOLEAN]

DistinctHwnds(ws) ==
    \A i, j \in 1..Len(ws) : i # j => ws[i].hwnd # ws[j].hwnd
WindowLists ==
    {ws \in UNION {[1..n -> Windows] : n \in 0..MaxWindows} : DistinctHwnds(ws)}

\* re.match against nt_class_patterns: Qt\d+QWindowIcon, WeChatMainWndForPC, ChatWnd
NtClassMatch(cls) == cls \in {"Qt5QWindowIcon", "WeChatMainWndForPC", "ChatWnd"}
\* `pattern in window_text` for one of legacy_patterns; of the titles of the
\* model, "WeChat" holds one and "Untitled" holds none
LegacyTitleMatch(title) == title = "WeChat"

\* enum_windows_callback: what one window appends to the list
Classify(w) ==
    IF ~w.visible THEN "none"
    ELSE IF NtClassMatch(w.cls) THEN "nt"
    ELSE IF LegacyTitleMatch(w.title) THEN "legacy"
    ELSE "none"

\* the list win32gui.EnumWindows leaves in `windows`
Candidates(ws) == SelectSeq(ws, LAMBDA w : Classify(w) # "none")
NtWindows(ws) == SelectSeq(ws, LAMBDA w : Classify(w) = "nt")

\* _find_wechat_window returning windows[0][0] without looking for nt_windows
FindFirstCandidate(ws) ==
    IF Candidates(ws) # <<>> THEN Candidates(ws)[1].hwnd ELSE 0

\* _find_wechat_window: the handle returned, 0 for None
FindWeChatWindow(ws) ==
    IF Candidates(ws) # <<>>
    THEN IF NtWindows(ws) # <<>> THEN NtWindows(ws)[1].hwnd
         ELSE Candidates(ws)[1].hwnd
    ELSE 0
\* how the returned window had been classified
FoundKind(ws) ==
    IF Candidates(ws) = <<>> THEN "none"
    ELSE IF NtWindows(ws) # <<>> THEN "nt" ELSE "legacy"

\* ------------------------------------------------------------------- state
VARIABLES
    running,      \* the tasks holding the event loop: {} or one task
    mainpc,       \* where main() stands
    initialized,  \* MCPServer.initialized
    resp,         \* main(): the response computed for the request, until printed
    sched,        \* sched[t]: the delayed_send task t
    ctl,          \* ctl[t]: the WeChatController instance task t works with
    run,          \* run[t]: task t's activation of send_text_message
    clipboard,    \* the system clipboard
    foreground,   \* the foreground window's handle, 0 for another application's
    probe         \* a function called on its own: its arguments and what it returned

vars == <<running, mainpc, initialized, resp, sched, ctl, run, clipboard, foreground, probe>>

\* no function is called on its own
NoProbe == [op |-> "none"]

\* the settle delays written as `await asyncio.sleep(...)`
SettleAwaited == TRUE

\* time.sleep blocks the event loop's only thread: the settle delays between
\* the automation steps are no suspension points.
SettleSuspends == FALSE

Stages == <<"version_check", "find_window", "activate_window",
            "search_contact", "send_text">>

\* What send_text_message returns: the code returns the bare bools True and
\* False; a dict would carry ok, stage and reason (the server reads both forms).
NoResult == [type |-> "none", ok |-> FALSE, stage |-> NoData, reason |-> NoData]
Bool(b) == [type |-> "bool", ok |-> b, stage |-> NoData, reason |-> NoData]
Outcome(ok, stage, reason) == [type |-> "dict", ok |-> ok, stage |-> stage, reason |-> reason]

\* An activation of send_text_message: its position, arguments and locals
\* (hwnd is wechat_hwnd; original_data, pos and box_hwnd are the locals of
\* the helper being run), its return value, and a record of what it did that
\* the code does not read: log (the stage returns and the keys pressed, in
\* order), acts (the kinds of OS call attempted for each stage), wkind (how
\* the window found had been classified), detected (whether this run's
\* version detection returned a version), cause (the call whose failure made
\* the run fail) and clip0 (the clipboard when the run began).
IdleRun ==
    [pc |-> "idle", contact |-> NoData, message |-> NoData,
     hwnd |-> 0, phase |-> "none", fw |-> "none",
     original_data |-> NoData, pos |-> 0, box_hwnd |-> 0,
     result |-> NoResult,
     log |-> <<>>, acts |-> {}, wkind |-> "none", detected |-> FALSE,
     cause |-> "none", clip0 |-> NoData]

\* send_text_message(contact_name, message) is entered
StartRun(contact, message) ==
    [IdleRun EXCEPT !.pc = "detect", !.contact = contact, !.message = message,
                    !.clip0 = clipboard]

InFlight(t) == run[t].pc \notin {"idle", "done"}

Ev(stage, what, n, ok) == [st |-> stage, ev |-> what, n |-> n, ok |-> ok]
Logged(r, e) == [r EXCEPT !.log = Append(@, e)]
Acted(r, stage, kind) == [r EXCEPT !.acts = @ \cup {<<stage, kind>>}]
\* a call of kind f failed and makes the run fail: "restore" for a call of
\* the clipboard restore block, "exception" for one that raised into
\* send_text_message itself, "other" for any other
Faulted(r, f) == [r EXCEPT !.cause = f]
Goto(r, label) == [r EXCEPT !.pc = label]

\* the stage the text injection works for
PhaseStage(r) == IF r.phase = "search" THEN "search_contact" ELSE "send_text"

\* task t stands at label `at` and has the loop
At(t, at) == run[t].pc = at /\ (running = {t} \/ running = {})
\* who holds the loop after a step of t that ends in a settle delay
AfterSettle(t) == IF SettleSuspends THEN {} ELSE {t}

\* ---------------------------------------------------- send_text_message
\* return of send_text_message
Finish(r, ok) ==
    [r EXCEPT !.pc = "done", !.result = Bool(ok),
              !.cause = IF ~ok /\ r.cause = "none" THEN "other" ELSE r.cause]

\* send_text_message after _send_text returned
AfterSend(r, ok) ==
    Finish(Logged(r, Ev("send_text", "ret", 0, ok)), ok)

\* send_text_message without `if not self._search_contact(...): return False`
AfterSearchUnchecked(r, ok) ==
    [Logged(r, Ev("search_contact", "ret", 0, ok)) EXCEPT !.pc = "box_find", !.phase = "send"]

\* send_text_message after _search_contact returned; _send_text dispatches
\* on is_nt_version and both variants start with _find_and_click_input_box
AfterSearch(r, ok) ==
    LET r1 == Logged(r, Ev("search_contact", "ret", 0, ok)) IN
    IF ~ok THEN Finish(r1, FALSE)
    ELSE [r1 EXCEPT !.pc = "box_find", !.phase = "send"]

\* send_text_message after _activate_window returned; _search_contact
\* dispatches on is_nt_version
AfterActivate(r, ok, is_nt) ==
    LET r1 == Logged(r, Ev("activate_window", "ret", 0, ok)) IN
    IF ~ok THEN Finish(r1, FALSE)
    ELSE [r1 EXCEPT !.pc = IF is_nt THEN "snt_ctrl_f" ELSE "sl_ctrl_f",
                    !.phase = "search",
                    !.fw = IF is_nt THEN "nt" ELSE "legacy"]

\* send_text_message after _find_wechat_window returned
AfterFind(r, hwnd, kind) ==
    LET r1 == Logged([r EXCEPT !.hwnd = hwnd, !.wkind = kind],
                     Ev("find_window", "ret", 0, hwnd # 0)) IN
    IF hwnd = 0 THEN Finish(r1, FALSE)
    ELSE Goto(r1, "act_show")

\* send_text_message without its try: the exception leaves the call, which
\* returns nothing
Propagated(r) ==
    [r EXCEPT !.pc = "done", !.result = NoResult, !.cause = "exception"]

\* except Exception at the end of send_text_message: return False
Caught(r) == Finish(Faulted(r, "exception"), FALSE)

\* version = self._detect_wechat_version(): the result is logged, not checked
Detect(t) ==
    /\ At(t, "detect")
    /\ \E procs \in ProcLists :
         LET v == DetectedVersion(procs) IN
         /\ ctl' = [ctl EXCEPT ![t] = DetectWeChatVersion(@, procs)]
         /\ run' = [run EXCEPT ![t] =
                Goto(Logged([Acted(@, "version_check", "process")
                                EXCEPT !.detected = (v # NoVersion)],
                            Ev("version_check", "ret", 0, v # NoVersion)),
                     "find")]
    /\ running' = {t}
    /\ UNCHANGED <<mainpc, initialized, resp, sched, clipboard, foreground, probe>>

\* wechat_hwnd = self._find_wechat_window(); EnumWindows or a call of its
\* callback may raise, which the except at the end catches
Find(t) ==
    /\ At(t, "find")
    /\ \/ \E ws \in WindowLists :
            run' = [run EXCEPT ![t] =
                AfterFind(Acted(@, "find_window", "window"),
                          FindWeChatWindow(ws), FoundKind(ws))]
       \/ run' = [run EXCEPT ![t] =
              Caught(Logged(Acted(@, "find_window", "window"),
                            Ev("find_window", "ret", 0, FALSE)))]
    /\ running' = {t}
    /\ UNCHANGED <<mainpc, initialized, resp, sched, ctl, clipboard, foreground, probe>>

\* _activate_window: ShowWindow(hwnd, SW_RESTORE)
ActivateShow(t) ==
    /\ At(t, "act_show")
    /\ \E raised \in BOOLEAN :
         LET r == Acted(run[t], "activate_window", "window") IN
         run' = [run EXCEPT ![t] =
             IF raised THEN AfterActivate(r, FALSE, ctl[t].is_nt_version)
             ELSE Goto(r, "act_fg")]
    /\ running' = {t}
    /\ UNCHANGED <<mainpc, initialized, resp, sched, ctl, clipboard, foreground, probe>>

\* _activate_window: SetForegroundWindow(hwnd), then time.sleep(0.5)
ActivateForeground(t) ==
    /\ At(t, "act_fg")
    /\ \E raised \in BOOLEAN :
         LET r == Acted(run[t], "activate_window", "window") IN
         /\ run' = [run EXCEPT ![t] =
               IF raised THEN AfterActivate(r, FALSE, ctl[t].is_nt_version)
               ELSE Goto(r, "act_ret")]
         /\ foreground' = IF raised THEN foreground ELSE run[t].hwnd
         /\ running' = IF raised THEN {t} ELSE AfterSettle(t)
    /\ UNCHANGED <<mainpc, initialized, resp, sched, ctl, clipboard, probe>>

\* _activate_window: return True.  The foreground window is not read back.
ActivateReturn(t) ==
    /\ At(t, "act_ret")
    /\ run' = [run EXCEPT ![t] =
          AfterActivate(@, TRUE, ctl[t].is_nt_version)]
    /\ running' = {t}
    /\ UNCHANGED <<mainpc, initialized, resp, sched, ctl, clipboard, foreground, probe>>

\* ------------------------------------------------ simulated keys and mouse
\* One pyautogui call (hotkey, press, click, typewrite) at label `at`, for
\* `stage`; it raises or it reaches whatever window is foreground.
Input(t, at, stage, kind, settle, OnOk(_), OnRaise(_)) ==
    /\ At(t, at)
    /\ \E raised \in BOOLEAN :
         LET r == Acted(run[t], stage, kind) IN
         /\ run' = [run EXCEPT ![t] =
               IF raised THEN OnRaise(r) ELSE OnOk(r)]
         /\ running' = IF settle /\ ~raised THEN AfterSettle(t) ELSE {t}
    /\ UNCHANGED <<mainpc, initialized, resp, sched, ctl, clipboard, foreground, probe>>

\* a key press the log keeps, with its outcome
Key(t, at, stage, key, next, OnRaise(_)) ==
    Input(t, at, stage, "key", TRUE,
          LAMBDA r : Goto(Logged(r, Ev(stage, key, 0, TRUE)), next),
          LAMBDA r : OnRaise(Logged(r, Ev(stage, key, 0, FALSE))))

\* ------------------------------------------------- _input_text_via_keyboard
\* callers without `if not self._input_text_via_keyboard(...): return False`
AfterInputUnchecked(r, ok) ==
    LET r1 == Logged([r EXCEPT !.original_data = NoData],
                     Ev(PhaseStage(r), "inject", 0, ok)) IN
    IF r.phase = "search"
    THEN Goto(r1, IF r.fw = "nt" THEN "snt_enter" ELSE "sl_enter")
    ELSE Goto(r1, "sub_enter")

\* return of _input_text_via_keyboard to the caller that phase and fw name
AfterInput(r, ok) ==
    LET r1 == Logged([r EXCEPT !.original_data = NoData],
                     Ev(PhaseStage(r), "inject", 0, ok)) IN
    IF r.phase = "search"
    THEN IF ~ok THEN AfterSearch(r1, FALSE)
         ELSE Goto(r1, IF r.fw = "nt" THEN "snt_enter" ELSE "sl_enter")
    ELSE IF ~ok THEN AfterSend(r1, FALSE)
         ELSE Goto(r1, "sub_enter")

\* one win32clipboard call that changes no content (OpenClipboard,
\* CloseClipboard); `fault` is "restore" inside the restore block
ClipCall(t, at, next, fault, settle) ==
    /\ At(t, at)
    /\ \E raised \in BOOLEAN :
         LET r == Acted(run[t], PhaseStage(run[t]), "clipboard") IN
         /\ run' = [run EXCEPT ![t] =
               IF raised THEN AfterInput(Faulted(r, fault), FALSE) ELSE Goto(r, next)]
         /\ running' = IF settle /\ ~raised THEN AfterSettle(t) ELSE {t}
    /\ UNCHANGED <<mainpc, initialized, resp, sched, ctl, clipboard, foreground, probe>>

\* one win32clipboard call that leaves `content` on the clipboard
ClipWrite(t, at, content, next, fault, settle) ==
    /\ At(t, at)
    /\ \E raised \in BOOLEAN :
         LET r == Acted(run[t], PhaseStage(run[t]), "clipboard") IN
         /\ run' = [run EXCEPT ![t] =
               IF raised THEN AfterInput(Faulted(r, fault), FALSE) ELSE Goto(r, next)]
         /\ clipboard' = IF raised THEN clipboard ELSE content
         /\ running' = IF settle /\ ~raised THEN AfterSettle(t) ELSE {t}
    /\ UNCHANGED <<mainpc, initialized, resp, sched, ctl, foreground, probe>>

\* original_data = GetClipboardData(), None when it raises
ClipGet(t) ==
    /\ At(t, "it_get")
    /\ run' = [run EXCEPT ![t] =
          [Acted(@, PhaseStage(@), "clipboard") EXCEPT
              !.pc = "it_close1",
              !.original_data = IF clipboard = ClipEmpty THEN NoData
                                ELSE GetClipboardData(clipboard)]]
    /\ running' = {t}
    /\ UNCHANGED <<mainpc, initialized, resp, sched, ctl, clipboard, foreground, probe>>

\* the text the caller passed: contact_name for the search, message for the send
InputText(r) == IF r.phase = "search" THEN r.contact ELSE r.message

InputTextViaKeyboard(t) ==
    \/ ClipCall(t, "it_open1", "it_get", "other", FALSE)
    \/ ClipGet(t)
    \/ ClipCall(t, "it_close1", "it_ctrl_a", "other", FALSE)
    \/ Input(t, "it_ctrl_a", PhaseStage(run[t]), "key", TRUE,
             LAMBDA r : Goto(r, "it_delete"), LAMBDA r : AfterInput(r, FALSE))
    \/ Input(t, "it_delete", PhaseStage(run[t]), "key", TRUE,
             LAMBDA r : Goto(r, "it_open2"), LAMBDA r : AfterInput(r, FALSE))
    \/ ClipCall(t, "it_open2", "it_empty2", "other", FALSE)
    \/ ClipWrite(t, "it_empty2", ClipEmpty, "it_set", "other", FALSE)
    \/ ClipWrite(t, "it_set", InputText(run[t]), "it_close2", "other", FALSE)
    \/ ClipCall(t, "it_close2", "it_paste", "other", TRUE)
    \/ Input(t, "it_paste", PhaseStage(run[t]), "key", TRUE,
             LAMBDA r : IF r.original_data # NoData THEN Goto(r, "it_open3")
                        ELSE AfterInput(r, TRUE),
             LAMBDA r : AfterInput(r, FALSE))
    \/ ClipCall(t, "it_open3", "it_empty3", "restore", FALSE)
    \/ ClipWrite(t, "it_empty3", ClipEmpty, "it_restore", "restore", FALSE)
    \/ ClipWrite(t, "it_restore", run[t].original_data, "it_close3", "restore", FALSE)
    \/ /\ At(t, "it_close3")
       /\ \E raised \in BOOLEAN :
            LET r == Acted(run[t], PhaseStage(run[t]), "clipboard") IN
            run' = [run EXCEPT ![t] =
                IF raised THEN AfterInput(Faulted(r, "restore"), FALSE)
                ELSE AfterInput(r, TRUE)]
       /\ running' = {t}
       /\ UNCHANGED <<mainpc, initialized, resp, sched, ctl, clipboard, foreground, probe>>

\* --------------------------------------------------------- _search_contact
\* _search_contact_nt: Ctrl+F, Ctrl+A, Delete, the contact name, Enter, Down, Enter
SearchContactNt(t) ==
    \/ Key(t, "snt_ctrl_f", "search_contact", "ctrl+f", "snt_ctrl_a",
           LAMBDA r : AfterSearch(r, FALSE))
    \/ Key(t, "snt_ctrl_a", "search_contact", "ctrl+a", "snt_delete",
           LAMBDA r : AfterSearch(r, FALSE))
    \/ Key(t, "snt_delete", "search_contact", "delete", "it_open1",
           LAMBDA r : AfterSearch(r, FALSE))
    \/ Key(t, "snt_enter", "search_contact", "enter", "snt_down",
           LAMBDA r : AfterSearch(r, FALSE))
    \/ Key(t, "snt_down", "search_contact", "down", "snt_enter2",
           LAMBDA r : AfterSearch(r, FALSE))
    \/ Input(t, "snt_enter2", "search_contact", "key", TRUE,
             LAMBDA r : AfterSearch(Logged(r, Ev("search_contact", "enter", 0, TRUE)), TRUE),
             LAMBDA r : AfterSearch(Logged(r, Ev("search_contact", "enter", 0, FALSE)), FALSE))

\* _search_contact_legacy: Ctrl+F, the contact name, Enter
SearchContactLegacy(t) ==
    \/ Key(t, "sl_ctrl_f", "search_contact", "ctrl+f", "it_open1",
           LAMBDA r : AfterSearch(r, FALSE))
    \/ Input(t, "sl_enter", "search_contact", "key", TRUE,
             LAMBDA r : AfterSearch(Logged(r, Ev("search_contact", "enter", 0, TRUE)), TRUE),
             LAMBDA r : AfterSearch(Logged(r, Ev("search_contact", "enter", 0, FALSE)), FALSE))

\* ----------------------------------------------- _find_and_click_input_box
\* the candidate positions of input_positions
NumPositions == 5

\* return of _find_and_click_input_box to _send_text_nt / _send_text_legacy
AfterBox(r, ok) ==
    LET r1 == Logged([r EXCEPT !.pos = 0, !.box_hwnd = 0],
                     Ev("send_text", "input_box", 0, ok)) IN
    IF ok THEN Goto(r1, "it_open1") ELSE AfterSend(r1, FALSE)

\* input_positions, by the place each entry names
InputPositions ==
    <<"bottom_centre_80", "bottom_centre_120", "bottom_left_third",
      "bottom_right_third", "screen_fallback">>

\* a loop that ends at the first position that fails
NoNextPosition(r) == AfterBox(r, FALSE)

\* position pos failed: the next one, or "All input box positions failed"
NextPosition(r) ==
    IF r.pos < NumPositions THEN [r EXCEPT !.pc = "box_click", !.pos = r.pos + 1]
    ELSE AfterBox(r, FALSE)

FindAndClickInputBox(t) ==
    \* hwnd = self._find_wechat_window(), a second enumeration
    \/ /\ At(t, "box_find")
       /\ \/ \E ws \in WindowLists :
               LET h == FindWeChatWindow(ws)
                   r == [Acted(run[t], "send_text", "window") EXCEPT !.box_hwnd = h] IN
               run' = [run EXCEPT ![t] =
                   IF h = 0 THEN AfterBox(r, FALSE)
                   ELSE Goto(r, "box_rect")]
          \/ run' = [run EXCEPT ![t] =
                 AfterBox(Acted(@, "send_text", "window"), FALSE)]
       /\ running' = {t}
       /\ UNCHANGED <<mainpc, initialized, resp, sched, ctl, clipboard, foreground, probe>>
    \* rect = win32gui.GetWindowRect(hwnd), the last use of hwnd;
    \* input_positions is built
    \/ /\ At(t, "box_rect")
       /\ \E raised \in BOOLEAN :
            LET r == Acted(run[t], "send_text", "window") IN
            run' = [run EXCEPT ![t] =
                IF raised THEN AfterBox(r, FALSE)
                ELSE [r EXCEPT !.pc = "box_click", !.pos = 1, !.box_hwnd = 0]]
       /\ running' = {t}
       /\ UNCHANGED <<mainpc, initialized, resp, sched, ctl, clipboard, foreground, probe>>
    \* pyautogui.click(click_x, click_y)
    \/ Input(t, "box_click", "send_text", "mouse", TRUE,
             LAMBDA r : Goto(r, "box_type"), LAMBDA r : NextPosition(r))
    \* pyautogui.typewrite('a')
    \/ Input(t, "box_type", "send_text", "key", TRUE,
             LAMBDA r : Goto(r, "box_backspace"), LAMBDA r : NextPosition(r))
    \* pyautogui.press('backspace'); return True
    \/ Input(t, "box_backspace", "send_text", "key", TRUE,
             LAMBDA r : AfterBox(r, TRUE),
             LAMBDA r : NextPosition(r))

\* --------------------------------------------------------------- _send_text
\* the submit keys of _send_text_nt and of _send_text_legacy, in order
SubmitKeys(fw) ==
    IF fw = "nt" THEN <<"enter", "ctrl+enter", "alt+s">>
    ELSE <<"enter", "ctrl+enter">>

SubmitLabel(key) ==
    CASE key = "enter" -> "sub_enter"
      [] key = "ctrl+enter" -> "sub_ctrl_enter"
      [] key = "alt+s" -> "sub_alt_s"

\* submit key number i: send_success on return, the next key when it raises,
\* "All send methods failed" after the last
Submit(t, i) ==
    /\ i \in 1..Len(SubmitKeys(run[t].fw))
    /\ LET keys == SubmitKeys(run[t].fw) IN
       Input(t, SubmitLabel(keys[i]), "send_text", "key", TRUE,
             LAMBDA r : AfterSend(Logged(r, Ev("send_text", keys[i], i, TRUE)), TRUE),
             LAMBDA r : LET r1 == Logged(r, Ev("send_text", keys[i], i, FALSE)) IN
                        IF i < Len(keys) THEN Goto(r1, SubmitLabel(keys[i + 1]))
                        ELSE AfterSend(r1, FALSE))

SendText(t) == \E i \in 1..3 : Submit(t, i)

\* one step of task t's send_text_message
RunStep(t) ==
    \/ Detect(t)
    \/ Find(t)
    \/ ActivateShow(t)
    \/ ActivateForeground(t)
    \/ ActivateReturn(t)
    \/ SearchContactNt(t)
    \/ SearchContactLegacy(t)
    \/ InputTextViaKeyboard(t)
    \/ FindAndClickInputBox(t)
    \/ SendText(t)

\* --------------------------------------------------------------- scheduler
\* A delayed_send task: its state, the arguments it closes over, the seconds
\* its asyncio.sleep still has to run (remaining), and two records the code
\* does not read: the seconds passed since the schedule_message call,
\* counted up to delay_seconds (waited), and the send_text_message calls it
\* has made (sends).
FreeSlot == [st |-> "free", contact |-> NoData, message |-> NoData,
             delay |-> 0, remaining |-> 0, waited |-> 0, sends |-> 0]

\* delayed_send calling send_text_message without the sleep before it
ScheduleMessageNoSleep(contact, message, delay) ==
    [FreeSlot EXCEPT !.st = "created", !.contact = contact, !.message = message,
                     !.delay = delay]

\* schedule_message: asyncio.create_task(delayed_send()); return True
ScheduleMessage(contact, message, delay) ==
    [FreeSlot EXCEPT !.st = "created", !.contact = contact, !.message = message,
                     !.delay = delay, !.remaining = delay]

\* The first step of delayed_send, up to `await asyncio.sleep(delay_seconds)`.
\* create_task queued it on the loop before main() went back to readline, so
\* the loop runs it as soon as main() suspends there and before main() can be
\* resumed; asyncio.sleep(0) suspends like any other delay.
TaskStart(slot) ==
    IF slot.st = "created" THEN [slot EXCEPT !.st = "sleeping"] ELSE slot

\* task t has been created and less than delay_seconds have passed since
Waiting(t) ==
    sched[t].st \in {"created", "sleeping"} /\ sched[t].waited < sched[t].delay
\* task t is in asyncio.sleep and the sleep is not over
Sleeping(t) ==
    sched[t].st = "sleeping" /\ sched[t].remaining > 0

\* one second passes, whoever holds the loop
Tick ==
    /\ \E t \in SchedIds : Waiting(t) \/ Sleeping(t)
    /\ sched' = [t \in SchedIds |->
          [sched[t] EXCEPT
              !.remaining = IF Sleeping(t) THEN @ - 1 ELSE @,
              !.waited = IF Waiting(t) THEN @ + 1 ELSE @]]
    /\ UNCHANGED <<running, mainpc, initialized, resp, ctl, run, clipboard, foreground, probe>>

\* the sleep is over: result = await self.send_text_message(contact_name, message)
TaskWake(t) ==
    /\ running = {}
    /\ sched[t].st = "sleeping"
    /\ sched[t].remaining = 0
    /\ sched' = [sched EXCEPT ![t] = [@ EXCEPT !.st = "sending", !.sends = @ + 1]]
    /\ run' = [run EXCEPT ![t] = StartRun(sched[t].contact, sched[t].message)]
    /\ running' = {t}
    /\ UNCHANGED <<mainpc, initialized, resp, ctl, clipboard, foreground, probe>>

\* delayed_send handing the result of its send to the server's answer
TaskFinishReports(t) ==
    /\ t \in SchedIds
    /\ At(t, "done")
    /\ sched[t].st = "sending"
    /\ sched' = [sched EXCEPT ![t] = [FreeSlot EXCEPT !.st = "done", !.sends = sched[t].sends]]
    /\ resp' = [code |-> 0, text |-> IF run[t].result.ok THEN "Message sent successfully"
                                     ELSE "Failed to send message"]
    /\ run' = [run EXCEPT ![t] = IdleRun]
    /\ ctl' = [ctl EXCEPT ![t] = NewController]
    /\ running' = {}
    /\ UNCHANGED <<mainpc, initialized, clipboard, foreground, probe>>

\* the result is logged and delayed_send ends
TaskFinish(t) ==
    /\ t \in SchedIds
    /\ At(t, "done")
    /\ sched[t].st = "sending"
    /\ sched' = [sched EXCEPT ![t] = [FreeSlot EXCEPT !.st = "done", !.sends = sched[t].sends]]
    /\ run' = [run EXCEPT ![t] = IdleRun]
    /\ ctl' = [ctl EXCEPT ![t] = NewController]
    /\ running' = {}
    /\ UNCHANGED <<mainpc, initialized, resp, clipboard, foreground, probe>>

\* ------------------------------------------------------------------ server
NoResp == [code |-> 0, text |-> "none"]
Result(text) == [code |-> 0, text |-> text]
Error(code) == [code |-> code, text |-> "error"]

ContactArgs == {NoData, "", "Alice"}
MessageArgs == {NoData, "", "hi"}
\* delay_seconds: absent, or a number of seconds
DelayArgs == {[given |-> FALSE, n |-> 0]} \cup {[given |-> TRUE, n |-> d] : d \in 0..MaxDelay}

\* `contact_name is None` in the place of `not contact_name`
IsNone(x) == x = NoData

\* `not contact_name`: None and the empty string are falsy
Falsy(x) == x = NoData \/ x = ""

\* main(): line = await run_in_executor(None, sys.stdin.readline) returned ''
\* (break), or handle_request let an exception through (a JSON value that is
\* no object has no .get, in the handler of the first failure as well), or
\* print raised; asyncio.run then cancels the tasks that have not finished.
MainExit ==
    /\ running = {}
    /\ mainpc \in {"read", "print"}
    /\ mainpc' = "exit"
    /\ resp' = NoResp
    /\ sched' = [t \in SchedIds |->
          IF sched[t].st \in {"created", "sleeping", "sending"}
          THEN [FreeSlot EXCEPT !.st = "cancelled", !.sends = sched[t].sends]
          ELSE sched[t]]
    /\ run' = [t \in Tasks |-> IdleRun]
    /\ ctl' = [t \in Tasks |-> NewController]
    /\ UNCHANGED <<running, initialized, clipboard, foreground, probe>>

\* JSONDecodeError reaching `except Exception: break`
ParseErrorBreaks ==
    /\ running = {}
    /\ mainpc = "read"
    /\ mainpc' = "exit"
    /\ UNCHANGED <<running, initialized, resp, sched, ctl, run, clipboard, foreground, probe>>

\* json.loads raised JSONDecodeError: the -32700 response
ParseError ==
    /\ running = {}
    /\ mainpc = "read"
    /\ mainpc' = "print"
    /\ resp' = Error(-32700)
    /\ running' = {MainTask}
    /\ UNCHANGED <<initialized, sched, ctl, run, clipboard, foreground, probe>>

\* an initialize that flips the flag: the second one clears it
HandleInitializeToggles ==
    /\ running = {}
    /\ mainpc = "read"
    /\ initialized' = ~initialized
    /\ resp' = Result("initialize")
    /\ mainpc' = "print"
    /\ running' = {MainTask}
    /\ UNCHANGED <<sched, ctl, run, clipboard, foreground, probe>>

\* handle_request: "initialize"
HandleInitialize ==
    /\ running = {}
    /\ mainpc = "read"
    /\ initialized' = TRUE
    /\ resp' = Result("initialize")
    /\ mainpc' = "print"
    /\ running' = {MainTask}
    /\ UNCHANGED <<sched, ctl, run, clipboard, foreground, probe>>

\* handle_request: "tools/list"
HandleToolsList ==
    /\ running = {}
    /\ mainpc = "read"
    /\ resp' = IF ~initialized THEN Error(-32002) ELSE Result("tools")
    /\ mainpc' = "print"
    /\ running' = {MainTask}
    /\ UNCHANGED <<initialized, sched, ctl, run, clipboard, foreground, probe>>

\* handle_request: any other method
HandleUnknownMethod ==
    /\ running = {}
    /\ mainpc = "read"
    /\ resp' = Error(-32601)
    /\ mainpc' = "print"
    /\ running' = {MainTask}
    /\ UNCHANGED <<initialized, sched, ctl, run, clipboard, foreground, probe>>

\* handle_request: "tools/call" with params that are no object, or a tool
\* called with arguments that are no object: .get raises, -32603
HandleBadParams ==
    /\ running = {}
    /\ mainpc = "read"
    /\ resp' = IF ~initialized THEN Error(-32002) ELSE Error(-32603)
    /\ mainpc' = "print"
    /\ running' = {MainTask}
    /\ UNCHANGED <<initialized, sched, ctl, run, clipboard, foreground, probe>>

\* _handle_tools_call for send_wechat_message, and _execute_send_message up
\* to `await controller.send_text_message(contact_name, message)`
HandleSendMessage ==
    /\ running = {}
    /\ mainpc = "read"
    /\ running' = {MainTask}
    /\ \E contact \in ContactArgs, message \in MessageArgs :
         IF ~initialized
         THEN /\ resp' = Error(-32002)
              /\ mainpc' = "print"
              /\ UNCHANGED <<ctl, run>>
         ELSE IF Falsy(contact) \/ Falsy(message)
         THEN /\ resp' = Error(-32602)
              /\ mainpc' = "print"
              /\ UNCHANGED <<ctl, run>>
         ELSE /\ ctl' = [ctl EXCEPT ![MainTask] = NewController]
              /\ run' = [run EXCEPT ![MainTask] = StartRun(contact, message)]
              /\ mainpc' = "send"
              /\ UNCHANGED resp
    /\ UNCHANGED <<initialized, sched, clipboard, foreground, probe>>

\* _handle_tools_call for schedule_wechat_message, and the whole of
\* _execute_schedule_message: schedule_message returns True at once
HandleScheduleMessage ==
    /\ running = {}
    /\ mainpc = "read"
    /\ running' = {MainTask}
    /\ mainpc' = "print"
    /\ \E contact \in ContactArgs, message \in MessageArgs, delay \in DelayArgs :
         IF ~initialized
         THEN /\ resp' = Error(-32002)
              /\ UNCHANGED <<sched, ctl>>
         ELSE IF Falsy(contact) \/ Falsy(message) \/ ~delay.given
         THEN /\ resp' = Error(-32602)
              /\ UNCHANGED <<sched, ctl>>
         ELSE \E t \in SchedIds :
                 /\ sched[t].st = "free"
                 /\ \A u \in SchedIds : u < t => sched[u].st # "free"
                 /\ sched' = [sched EXCEPT ![t] =
                       ScheduleMessage(contact, message, delay.n)]
                 /\ ctl' = [ctl EXCEPT ![t] = NewController]
                 /\ resp' = Result("scheduled")
    /\ UNCHANGED <<initialized, run, clipboard, foreground, probe>>

\* _handle_tools_call looking at the tool name before self.initialized
HandleUnknownToolFirst ==
    /\ running = {}
    /\ mainpc = "read"
    /\ resp' = Error(-32601)
    /\ mainpc' = "print"
    /\ running' = {MainTask}
    /\ UNCHANGED <<initialized, sched, ctl, run, clipboard, foreground, probe>>

\* _handle_tools_call for a tool name that is neither
HandleUnknownTool ==
    /\ running = {}
    /\ mainpc = "read"
    /\ resp' = IF ~initialized THEN Error(-32002) ELSE Error(-32601)
    /\ mainpc' = "print"
    /\ running' = {MainTask}
    /\ UNCHANGED <<initialized, sched, ctl, run, clipboard, foreground, probe>>

\* _execute_send_message after send_text_message returned: success is the
\* bool itself or the dict's "ok"; only a dict adds stage and reason to the text
SendResponse(result) ==
    IF result.ok THEN Result("Message sent successfully")
    ELSE IF result.type = "dict" THEN Result("Failed to send message (stage, reason)")
    ELSE Result("Failed to send message")

\* an exception out of send_text_message would reach the except of
\* _execute_send_message: -32603
ExecuteSendReturn ==
    /\ mainpc = "send"
    /\ At(MainTask, "done")
    /\ resp' = IF run[MainTask].result = NoResult THEN Error(-32603)
               ELSE SendResponse(run[MainTask].result)
    /\ run' = [run EXCEPT ![MainTask] = IdleRun]
    /\ ctl' = [ctl EXCEPT ![MainTask] = NewController]
    /\ mainpc' = "print"
    /\ running' = {MainTask}
    /\ UNCHANGED <<initialized, sched, clipboard, foreground, probe>>

\* print(json.dumps(response)); sys.stdout.flush(); back to
\* `await ... run_in_executor(None, sys.stdin.readline)`, where main() suspends
\* and the tasks created by the request run their first step
PrintResponse ==
    /\ mainpc = "print"
    /\ running = {MainTask}
    /\ mainpc' = "read"
    /\ resp' = NoResp
    /\ running' = {}
    /\ sched' = [t \in SchedIds |-> TaskStart(sched[t])]
    /\ UNCHANGED <<initialized, ctl, run, clipboard, foreground, probe>>

\* ------------------------------------------------------------ environment
\* the user or another application takes the foreground
ForegroundChange ==
    /\ foreground # 0
    /\ foreground' = 0
    /\ UNCHANGED <<running, mainpc, initialized, resp, sched, ctl, run, clipboard, probe>>

\* ----------------------------------------------------------- specification
Init ==
    /\ running = {}
    /\ mainpc = "read"
    /\ initialized = FALSE
    /\ resp = NoResp
    /\ sched = [t \in SchedIds |-> FreeSlot]
    /\ ctl = [t \in Tasks |-> NewController]
    /\ run = [t \in Tasks |-> IdleRun]
    /\ clipboard \in UserClips
    /\ foreground = 0
    /\ probe = NoProbe

Next ==
    \/ HandleInitialize
    \/ HandleToolsList
    \/ HandleUnknownMethod
    \/ HandleBadParams
    \/ HandleSendMessage
    \/ HandleScheduleMessage
    \/ HandleUnknownTool
    \/ ParseError
    \/ ExecuteSendReturn
    \/ PrintResponse
    \/ MainExit
    \/ \E t \in SchedIds : TaskWake(t)
    \/ \E t \in SchedIds : TaskFinish(t)
    \/ Tick
    \/ \E t \in Tasks : RunStep(t)
    \/ ForegroundChange

\* the server with clients that send now and schedule
Spec == Init /\ [][Next]_vars

\* the server with clients that never call schedule_wechat_message
NextSend ==
    \/ HandleInitialize
    \/ HandleToolsList
    \/ HandleUnknownMethod
    \/ HandleBadParams
    \/ HandleSendMessage
    \/ HandleUnknownTool
    \/ ParseError
    \/ ExecuteSendReturn
    \/ PrintResponse
    \/ MainExit
    \/ RunStep(MainTask)
    \/ ForegroundChange

SpecSend == Init /\ [][NextSend]_vars

\* ------------------------------------------ _find_wechat_window on its own
\* no server, no task, no run
Quiet ==
    /\ running = {}
    /\ mainpc = "exit"
    /\ initialized = FALSE
    /\ resp = NoResp
    /\ sched = [t \in SchedIds |-> FreeSlot]
    /\ ctl = [t \in Tasks |-> NewController]
    /\ run = [t \in Tasks |-> IdleRun]
    /\ clipboard = ClipEmpty
    /\ foreground = 0

\* the windows EnumWindows is about to enumerate, in its order
InitFind ==
    /\ Quiet
    /\ probe \in {[op |-> "find", ws |-> ws, called |-> FALSE, ret |-> 0] : ws \in WindowLists}

\* hwnd = self._find_wechat_window()
CallFind ==
    /\ probe.op = "find"
    /\ ~probe.called
    /\ probe' = [probe EXCEPT !.called = TRUE, !.ret = FindWeChatWindow(probe.ws)]
    /\ UNCHANGED <<running, mainpc, initialized, resp, sched, ctl, run, clipboard, foreground>>

NextFind == CallFind

SpecFind == InitFind /\ [][NextFind]_vars

\* ------------------------------------------------- test_send_chinese.py
\* get_status() on controller c: the fields after its _detect_wechat_version
\* call and the dict returned (framework_type repeats is_nt_framework and
\* nt_framework_support is always True)
GetStatus(c, procs, ws) ==
    LET c1 == DetectWeChatVersion(c, procs) IN
    [wechat_available |-> FindWeChatWindow(ws) # 0,
     window_handle |-> FindWeChatWindow(ws),
     wechat_version |-> c1.wechat_version,
     is_nt_framework |-> c1.is_nt_version]

\* main() of the test program: one controller for get_status and the send
InitTest ==
    /\ running = {}
    /\ mainpc = "t_status"
    /\ initialized = FALSE
    /\ resp = NoResp
    /\ sched = [t \in SchedIds |-> FreeSlot]
    /\ ctl = [t \in Tasks |-> NewController]
    /\ run = [t \in Tasks |-> IdleRun]
    /\ clipboard \in UserClips
    /\ foreground = 0
    /\ probe = NoProbe

\* status = controller.get_status(); print.  probe keeps the dict with what
\* this call saw: whether a version was read and how the window found had
\* been classified.  EnumWindows raising ends the program.
TestGetStatus ==
    /\ mainpc = "t_status"
    /\ \E procs \in ProcLists :
         /\ ctl' = [ctl EXCEPT ![MainTask] = DetectWeChatVersion(@, procs)]
         /\ \/ \E ws \in WindowLists :
                 /\ probe' = [op |-> "status",
                              status |-> GetStatus(ctl[MainTask], procs, ws),
                              detected |-> (DetectedVersion(procs) # NoVersion),
                              wkind |-> FoundKind(ws)]
                 /\ mainpc' = "t_check"
            \/ /\ mainpc' = "t_exit"
               /\ UNCHANGED probe
    /\ running' = {MainTask}
    /\ UNCHANGED <<initialized, resp, sched, run, clipboard, foreground>>

\* if not status.get('wechat_available'): return; else
\* result = await controller.send_text_message(contact, message)
TestSend ==
    /\ mainpc = "t_check"
    /\ IF probe.status.wechat_available
       THEN /\ run' = [run EXCEPT ![MainTask] = StartRun("10.14", "chinese text")]
            /\ mainpc' = "t_send"
       ELSE /\ mainpc' = "t_exit"
            /\ UNCHANGED run
    /\ probe' = NoProbe
    /\ UNCHANGED <<running, initialized, resp, sched, ctl, clipboard, foreground>>

\* print(f"Result: {result}") and the program ends
TestResult ==
    /\ mainpc = "t_send"
    /\ At(MainTask, "done")
    /\ mainpc' = "t_exit"
    /\ running' = {}
    /\ UNCHANGED <<initialized, resp, sched, ctl, run, clipboard, foreground, probe>>

NextTest ==
    \/ TestGetStatus
    \/ TestSend
    \/ TestResult
    \/ RunStep(MainTask)
    \/ ForegroundChange

SpecTest == InitTest /\ [][NextTest]_vars

\* ------------------------------------------------------------------ claims
\* positions of the events of a log that satisfy Test
Where(log, Test(_)) == {i \in 1..Len(log) : Test(log[i])}
Returned(r, stage, ok) == \E i \in 1..Len(r.log) : r.log[i] = Ev(stage, "ret", 0, ok)
\* the position at which `stage` returned success, 0 when it has not
ReturnedAt(r, stage) ==
    LET at == Where(r.log, LAMBDA e : e = Ev(stage, "ret", 0, TRUE)) IN
    IF at = {} THEN 0 ELSE CHOOSE i \in at : \A j \in at : i <= j
StageActs(r, stage) == {a \in r.acts : a[1] = stage}

\* the four stages after the version check returned success, each once, in order
StagesInOrder(r) ==
    /\ \A k \in 2..Len(Stages) : ReturnedAt(r, Stages[k]) # 0
    /\ \A k \in 2..(Len(Stages) - 1) :
          ReturnedAt(r, Stages[k]) < ReturnedAt(r, Stages[k + 1])
    /\ ReturnedAt(r, "version_check") < ReturnedAt(r, "find_window")

\* the version check of this run passed: a major version of 4 or more was
\* detected, or the window found is NT-classified
VersionCheckPassed(t) ==
    \/ run[t].detected /\ MajorOf(ctl[t].wechat_version) >= 4
    \/ run[t].wkind = "nt"

\* C1: a run returns success only after the version check, window discovery,
\* activation, contact search and text submission each returned success, in
\* that order.
C1_SuccessAfterAllStages ==
    \A t \in Tasks :
        (run[t].pc = "done" /\ run[t].result.ok) =>
            VersionCheckPassed(t) /\ StagesInOrder(run[t])

\* the part of C1 that the code keeps: the four later stages, in order
C1_LaterStagesInOrder ==
    \A t \in Tasks :
        (run[t].pc = "done" /\ run[t].result.ok) => StagesInOrder(run[t])

\* C2: a run that detected a major version below 4, with no NT-classified
\* window present, fails at the version_check stage without looking up or
\* activating a window, searching or sending.
C2_LegacyFailsClosed ==
    \A t \in Tasks :
        (/\ run[t].pc = "done"
         /\ run[t].detected
         /\ MajorOf(ctl[t].wechat_version) < 4
         /\ run[t].wkind # "nt")
        => /\ ~run[t].result.ok
           /\ run[t].result.stage = "version_check"
           /\ StageActs(run[t], "find_window") = {}
           /\ StageActs(run[t], "activate_window") = {}
           /\ StageActs(run[t], "search_contact") = {}
           /\ StageActs(run[t], "send_text") = {}

\* C3: at most one send_text_message run is in flight at any moment.
C3_OneRunInFlight ==
    Cardinality({t \in Tasks : InFlight(t)}) <= 1

\* a scheduled send is in flight while another scheduled send's delay has
\* elapsed and the other waits for the loop
C3_Witness ==
    \E t, u \in SchedIds :
        /\ t # u
        /\ InFlight(t)
        /\ run[t].pc \notin {"detect", "find"}
        /\ sched[u].st = "sleeping"
        /\ sched[u].remaining = 0

\* C4: when the clipboard held readable text as a run began, it holds the
\* same text when the run has returned.
C4_ClipboardRestored ==
    \A t \in Tasks :
        (run[t].pc = "done" /\ run[t].clip0 # ClipEmpty) => clipboard = run[t].clip0

\* C5: a failure of the clipboard restore never decides the outcome: no run
\* returns failure because a call of the restore block raised.
C5_RestoreFailureSwallowed ==
    \A t \in Tasks :
        (run[t].pc = "done" /\ ~run[t].result.ok) => run[t].cause # "restore"

\* C6: _activate_window returns true only with the target window in the
\* foreground.
C6_ActivateConfirmsForeground ==
    [][\A t \in Tasks :
          (run[t].pc = "act_ret" /\ Returned(run'[t], "activate_window", TRUE))
          => foreground = run[t].hwnd]_vars

\* the submit keys a run has pressed, in order
SubmitEvents(r) ==
    SelectSeq(r.log, LAMBDA e : e.st = "send_text" /\ e.ev \in {"enter", "ctrl+enter", "alt+s"})
Ladder == <<"enter", "ctrl+enter", "alt+s">>

\* the part of C7 that both variants keep: the keys pressed are a prefix of
\* the ladder, each one after the earlier ones raised
C7_LadderOrder ==
    \A t \in Tasks :
        LET ks == SubmitEvents(run[t]) IN
        /\ Len(ks) <= Len(Ladder)
        /\ \A i \in 1..Len(ks) : ks[i].ev = Ladder[i]
        /\ \A i \in 1..(Len(ks) - 1) : ~ks[i].ok

\* C7: the submit keys are pressed in the order Enter, Ctrl+Enter, Alt+S; a
\* later one only after every earlier one raised, none after one that did not
\* raise, and the send step gives up only after all three raised.
C7_SubmitLadder ==
    \A t \in Tasks :
        LET ks == SubmitEvents(run[t]) IN
        /\ Len(ks) <= Len(Ladder)
        /\ \A i \in 1..Len(ks) : ks[i].ev = Ladder[i]
        /\ \A i \in 1..(Len(ks) - 1) : ~ks[i].ok
        /\ (Returned(run[t], "send_text", FALSE) /\ ks # <<>>) => Len(ks) = Len(Ladder)

\* C8: supported runtime, window found, activation and search successful, all
\* three submit keys raised: the run returns {ok: false, stage: "send_text",
\* reason: "send_failed"}.
C8_SendFailedOutcome ==
    \A t \in Tasks :
        (/\ run[t].pc = "done"
         /\ ctl[t].is_nt_version
         /\ Returned(run[t], "search_contact", TRUE)
         /\ Len(SubmitEvents(run[t])) = Len(Ladder)
         /\ \A i \in 1..Len(Ladder) : ~SubmitEvents(run[t])[i].ok)
        => run[t].result = Outcome(FALSE, "send_text", "send_failed")

\* C9: when the enumeration yields no matching window the run returns
\* {ok: false, stage: "find_window"}.
C9_FindWindowOutcome ==
    \A t \in Tasks :
        (/\ run[t].pc = "done"
         /\ Returned(run[t], "find_window", FALSE))
        => /\ run[t].result.type = "dict"
           /\ ~run[t].result.ok
           /\ run[t].result.stage = "find_window"

\* C10: once a stage has failed, the run performs no action of a later stage.
C10_FailureShortCircuits ==
    \A t \in Tasks : \A k \in 2..Len(Stages) :
        Returned(run[t], Stages[k], FALSE) =>
            \A j \in (k + 1)..Len(Stages) : StageActs(run[t], Stages[j]) = {}

\* a run failed in the contact search, after the window was activated and
\* search keys were pressed
C10_Witness ==
    \E t \in Tasks :
        /\ run[t].pc = "done"
        /\ Returned(run[t], "activate_window", TRUE)
        /\ Returned(run[t], "search_contact", FALSE)
        /\ <<"search_contact", "key">> \in run[t].acts

\* C11: no fault escapes send_text_message: whatever sub-steps raise, the call
\* ends with a bool, and the server answers the request with a result text,
\* not with an error.
C11_NoFaultEscapes ==
    [][/\ \A t \in Tasks : run'[t].pc = "done" => run'[t].result.type = "bool"
       /\ (mainpc = "send" /\ mainpc' = "print") => resp'.code = 0]_vars

\* EnumWindows raised into send_text_message, which returned False to
\* _execute_send_message
C11_Witness ==
    /\ mainpc = "send"
    /\ run[MainTask].pc = "done"
    /\ run[MainTask].cause = "exception"
    /\ run[MainTask].result = Bool(FALSE)

\* C13: the response to a schedule request is produced while the task it
\* created has not started, and a scheduled send_text_message run starts only
\* when delay_seconds have passed since the schedule_message call.
C13_SendAfterDelay ==
    /\ resp = Result("scheduled") => \E t \in SchedIds : sched[t].st = "created"
    /\ \A t \in SchedIds :
          /\ sched[t].st = "created" => run[t].pc = "idle"
          /\ sched[t].st = "sending" => sched[t].waited = sched[t].delay

\* a send scheduled with the largest delay is running
C13_Witness ==
    \E t \in SchedIds :
        /\ sched[t].st = "sending"
        /\ sched[t].delay = MaxDelay
        /\ sched[t].waited = MaxDelay
        /\ InFlight(t)

\* C14: a task that schedule_message created calls send_text_message exactly
\* once and is never cancelled, however the request loop goes on or ends.
C14_ExactlyOneSend ==
    \A t \in SchedIds :
        /\ sched[t].st # "cancelled"
        /\ sched[t].sends <= 1
        /\ sched[t].st = "done" => sched[t].sends = 1

\* a step of a delayed send: the run of a delayed_send task moved, or the
\* task ended
DelayedSendStep ==
    \E t \in SchedIds :
        \/ run'[t] # run[t]
        \/ sched[t].st = "sending" /\ sched'[t].st = "done"
\* the texts that tell the outcome of a send
OutcomeTexts == {"Message sent successfully", "Failed to send message",
                 "Failed to send message (stage, reason)"}

\* C15: no step of a delayed send, whether it succeeds or fails, changes a
\* response or what the server answers next (its position, its initialized
\* flag), and a response tells the outcome of a send only as the answer to
\* an immediate send request, whose own outcome it is.
C15_DelayedOutcomeUnreported ==
    [][/\ DelayedSendStep => UNCHANGED <<mainpc, initialized, resp>>
       /\ (resp' # resp /\ resp'.text \in OutcomeTexts) =>
             /\ mainpc = "send"
             /\ run[MainTask].pc = "done"
             /\ resp'.text = IF run[MainTask].result.ok THEN "Message sent successfully"
                             ELSE "Failed to send message"]_vars

\* a delayed send has ended, another has been scheduled since and its answer
\* waits to be printed
C15_Witness ==
    /\ mainpc = "print"
    /\ resp = Result("scheduled")
    /\ \E t \in SchedIds : sched[t].st = "done" /\ sched[t].sends = 1

\* a tools/list request or a tools/call request of any kind is handled
ToolsRequest ==
    \/ HandleToolsList
    \/ HandleBadParams
    \/ HandleSendMessage
    \/ HandleScheduleMessage
    \/ HandleUnknownTool

\* C16: before the first initialize, tools/list and every tools/call are
\* answered with -32002, start no run and schedule no task.
C16_NotInitialized ==
    [][(~initialized /\ ToolsRequest) =>
          /\ resp' = [code |-> -32002, text |-> "error"]
          /\ mainpc' = "print"
          /\ UNCHANGED <<initialized, run, sched>>]_vars

\* a -32002 answer waits to be printed
C16_Witness ==
    /\ ~initialized
    /\ mainpc = "print"
    /\ resp.code = -32002

\* what counts as a missing contact_name or message
Missing == {NoData, ""}

\* C17: after initialize, a send or schedule call either is answered with
\* -32602 and starts and schedules nothing, or starts a run, or schedules a
\* task, with a contact_name and a message that are neither missing nor
\* empty; a delay_seconds of 0 schedules.
C17_InvalidParams ==
    [][(initialized /\ (HandleSendMessage \/ HandleScheduleMessage)) =>
          \/ /\ resp'.code = -32602
             /\ mainpc' = "print"
             /\ UNCHANGED <<run, sched>>
          \/ /\ mainpc' = "send"
             /\ run'[MainTask].pc = "detect"
             /\ run'[MainTask].contact \notin Missing
             /\ run'[MainTask].message \notin Missing
             /\ UNCHANGED sched
          \/ /\ resp' = Result("scheduled")
             /\ UNCHANGED run
             /\ \E t \in SchedIds :
                   /\ sched[t].st = "free"
                   /\ sched'[t].st = "created"
                   /\ sched'[t].contact \notin Missing
                   /\ sched'[t].message \notin Missing
                   /\ sched'[t].delay \in 0..MaxDelay
                   /\ \A u \in SchedIds \ {t} : sched'[u] = sched[u]]_vars

\* a task scheduled with delay_seconds 0 waits for the loop and a -32602
\* answer waits to be printed
C17_Witness ==
    /\ initialized
    /\ mainpc = "print"
    /\ resp.code = -32602
    /\ \E t \in SchedIds :
          sched[t].st = "sleeping" /\ sched[t].delay = 0 /\ sched[t].contact = "Alice"

\* C18: a line that is no JSON is answered with one -32700 response, leaves
\* initialized as it is and does not end the loop: the response is printed
\* and main() reads the next line; every response is printed before the
\* next line is read, and the loop ends only where it reads.
C18_ParseErrorAnswered ==
    [][/\ ParseError =>
             /\ resp'.code = -32700
             /\ mainpc' = "print"
             /\ UNCHANGED <<initialized, run, sched>>
       /\ (mainpc = "print" /\ mainpc' # "print") =>
             /\ mainpc' = "read"
             /\ resp' = NoResp
             /\ UNCHANGED initialized
       /\ (mainpc # "exit" /\ mainpc' = "exit") => (mainpc = "read" /\ ~ParseError)]_vars

\* after initialize, a -32700 answer waits to be printed
C18_Witness ==
    /\ initialized
    /\ mainpc = "print"
    /\ resp.code = -32700

\* C19: the supported-framework flag that get_status reports is true exactly
\* when the call detected a major version of 4 or more or found an
\* NT-classified window; with no version detected the version is none.
C19_SupportedFlag ==
    probe.op = "status" =>
        /\ probe.status.is_nt_framework =
              (\/ probe.detected /\ MajorOf(probe.status.wechat_version) >= 4
               \/ probe.wkind = "nt")
        /\ ~probe.detected => probe.status.wechat_version = NoVersion

\* C20: the wechat_version and is_nt_version a call works with are those
\* its own detection found: (none, false) when it found no version, whatever
\* an earlier call on the same controller had detected.
C20_CacheRefreshed ==
    \A t \in Tasks :
        (run[t].pc \notin {"idle", "detect"} /\ ~run[t].detected) =>
            /\ ctl[t].wechat_version = NoVersion
            /\ ~ctl[t].is_nt_version

\* the least position of a non-empty set of positions
First(S) == CHOOSE i \in S : \A j \in S : i <= j

\* C12: _find_wechat_window returns the first NT-classified window enumerated
\* when there is one, whatever legacy candidates come before it; else the
\* first legacy-classified one; else none.
C12_FindPrefersNt ==
    (probe.op = "find" /\ probe.called) =>
        LET ws == probe.ws
            nt == {i \in 1..Len(ws) : Classify(ws[i]) = "nt"}
            legacy == {i \in 1..Len(ws) : Classify(ws[i]) = "legacy"}
        IN  probe.ret = IF nt # {} THEN ws[First(nt)].hwnd
                        ELSE IF legacy # {} THEN ws[First(legacy)].hwnd
                        ELSE 0

\* a legacy candidate was enumerated before an NT one and the NT one came back
C12_Witness ==
    /\ probe.op = "find"
    /\ probe.called
    /\ Len(probe.ws) = 2
    /\ Classify(probe.ws[1]) = "legacy"
    /\ Classify(probe.ws[2]) = "nt"
    /\ probe.ret = probe.ws[2].hwnd

\* C21: a visible window with the generic Qt window class whose title holds
\* neither name of the product is not classified NT and is not the window
\* _find_wechat_window returns.
C21_QtClassNeedsTitle ==
    (probe.op = "find" /\ probe.called) =>
        \A i \in 1..Len(probe.ws) :
            LET w == probe.ws[i] IN
            (w.visible /\ w.cls = "Qt5QWindowIcon" /\ w.title # "WeChat") =>
                /\ Classify(w) # "nt"
                /\ probe.ret # w.hwnd

\* C22: the window whose rectangle the input-box locator reads is the window
\* the run found and activated.
C22_OneTargetWindow ==
    \A t \in Tasks :
        run[t].pc = "box_rect" => run[t].box_hwnd = run[t].hwnd

\* C23: with another window in the foreground as the contact search is
\* entered, the search fails at once: it presses no key and touches no
\* clipboard.
C23_SearchChecksForeground ==
    [][\A t \in Tasks :
          (/\ run[t].pc \in {"snt_ctrl_f", "sl_ctrl_f"}
           /\ run'[t] # run[t]
           /\ foreground # run[t].hwnd)
          => /\ StageActs(run'[t], "search_contact") = {}
             /\ Returned(run'[t], "search_contact", FALSE)]_vars

\* the labels of the loop over input_positions
BoxLabels == {"box_click", "box_type", "box_backspace"}
\* _find_and_click_input_box returned ok in the step from r to r2
BoxReturned(r, r2, ok) ==
    \E i \in (Len(r.log) + 1)..Len(r2.log) :
        r2.log[i] = Ev("send_text", "input_box", 0, ok)

\* C24: _find_and_click_input_box clicks its five positions (InputPositions:
\* bottom-centre at two depths, the bottom-left third, the bottom-right third,
\* the screen fallback) in that order; it clicks a position only straight after the click, the typed
\* sentinel or its delete failed at the position before it; it returns true
\* exactly when the delete of the sentinel completes, and false when the last
\* position fails or no window is found.
C24_InputBoxLadder ==
    /\ Len(InputPositions) = NumPositions
    /\ [][\A t \in Tasks :
            LET r == run[t]
                r2 == run'[t] IN
            r2 # r =>
              \* the first click is position 1; any later click is the next
              \* position, reached from a failed step of the one before
              /\ r2.pc = "box_click" =>
                    \/ r.pc = "box_rect" /\ r2.pos = 1
                    \/ r.pc \in BoxLabels /\ r2.pos = r.pos + 1
              \* the sentinel is typed and deleted where the click went
              /\ r2.pc = "box_type" => r.pc = "box_click" /\ r2.pos = r.pos
              /\ r2.pc = "box_backspace" => r.pc = "box_type" /\ r2.pos = r.pos
              /\ r2.pc \in BoxLabels => r2.pos \in 1..NumPositions
              \* true: the delete of the sentinel completed
              /\ BoxReturned(r, r2, TRUE) =>
                    r.pc = "box_backspace" /\ r2.pc = "it_open1"
              /\ (r.pc = "box_backspace" /\ r2.pc \notin BoxLabels) =>
                    \/ BoxReturned(r, r2, TRUE)
                    \/ r.pos = NumPositions /\ BoxReturned(r, r2, FALSE)
              \* false from the loop: the last position failed
              /\ (r.pc \in BoxLabels /\ BoxReturned(r, r2, FALSE)) =>
                    r.pos = NumPositions
              /\ (r.pc \in BoxLabels /\ r.pos = NumPositions
                     /\ r2.pc \notin BoxLabels /\ ~BoxReturned(r, r2, TRUE)) =>
                    BoxReturned(r, r2, FALSE)
              \* false when no window is found
              /\ (r.pc = "box_find" /\ r2.pc # "box_rect") =>
                    BoxReturned(r, r2, FALSE)]_vars

\* the screen fallback was clicked and its sentinel typed, the four
\* positions before it having failed
C24_Witness ==
    \E t \in Tasks :
        /\ run[t].pc = "box_backspace"
        /\ run[t].pos = NumPositions
        /\ InputPositions[run[t].pos] = "screen_fallback"

\* positions in the log of the keys that submit the contact name
SearchSubmits(r) ==
    Where(r.log, LAMBDA e : e.st = "search_contact" /\ e.ev \in {"enter", "down"})
\* positions in the log of the keys that submit the message
SendSubmits(r) ==
    Where(r.log, LAMBDA e : e.st = "send_text" /\ e.ev \in {"enter", "ctrl+enter", "alt+s"})
\* positions in the log where _input_text_via_keyboard returned ok in `stage`
Injected(r, stage, ok) ==
    Where(r.log, LAMBDA e : e = Ev(stage, "inject", 0, ok))
\* positions in the log where _find_and_click_input_box returned ok
BoxFound(r, ok) ==
    Where(r.log, LAMBDA e : e = Ev("send_text", "input_box", 0, ok))

\* C25: Enter and Down of the contact search come after the contact name was
\* injected, the submit keys of the send step after the input box was located
\* and the message injected; when one of these fails the step returns false
\* at once and has pressed none of its submit keys.
C25_SubmitAfterInjection ==
    \A t \in Tasks :
        LET r == run[t] IN
        /\ \A i \in SearchSubmits(r) :
              \E j \in Injected(r, "search_contact", TRUE) : j < i
        /\ \A i \in SendSubmits(r) :
              /\ \E j \in BoxFound(r, TRUE) : j < i
              /\ \E j \in Injected(r, "send_text", TRUE) : j < i
        /\ \A j \in Injected(r, "search_contact", FALSE) :
              /\ SearchSubmits(r) = {}
              /\ j < Len(r.log)
              /\ r.log[j + 1] = Ev("search_contact", "ret", 0, FALSE)
        /\ \A j \in Injected(r, "send_text", FALSE) \cup BoxFound(r, FALSE) :
              /\ SendSubmits(r) = {}
              /\ j < Len(r.log)
              /\ r.log[j + 1] = Ev("send_text", "ret", 0, FALSE)

\* a run that found the contact and the input box ended because the message
\* could not be injected
C25_Witness ==
    \E t \in Tasks :
        /\ run[t].pc = "done"
        /\ SearchSubmits(run[t]) # {}
        /\ BoxFound(run[t], TRUE) # {}
        /\ Injected(run[t], "send_text", FALSE) # {}
        /\ run[t].result = Bool(FALSE)

\* C26: initialized is false at the start, becomes true at an initialize
\* request and at no other step, is never set back to false by any request,
\* and no request received while it is true is answered with -32002.
C26_InitializedMonotonic ==
    /\ ~initialized
    /\ [][/\ initialized => initialized'
          /\ (~initialized /\ initialized') => HandleInitialize
          /\ HandleInitialize => initialized'
          /\ (initialized /\ resp' # resp) => resp' # Error(-32002)]_vars

\* a malformed line that came after initialize has its -32700 answer and the
\* flag still holds
C26_Witness ==
    /\ initialized
    /\ mainpc = "print"
    /\ resp = Error(-32700)
====
